---- MODULE Spec2Model ----
(***************************************************************************)
(* A model of push_service:                                                *)
(*   - scripts/manage_tokens.py : the list / add / remove commands on the  *)
(*     Redis token store, one store round trip (await) per step;           *)
(*   - scripts/test_push_consumer.py : publish_test_event, the passive     *)
(*     probe, its recovery and the publish, one broker call per step.      *)
(***************************************************************************)
EXTENDS Integers, Sequences, FiniteSets, TLC

(***************************************************************************)
(* Bounds                                                                  *)
(***************************************************************************)
NumClients == 2
MaxOps == 2
NumProducers == 2
MaxStrLen == 3
MaxClock == 2

Clients == 1..NumClients
Producers == 1..NumProducers

Users == {42}
Tokens == {"", "T1", "T2"}

\* Python's None: the value of an omitted --token, and of hget on a missing field.
None == "<None>"

(***************************************************************************)
(* The Redis store: key -> hash, a hash being a function field -> value.   *)
(* A key that does not exist is the empty hash.                            *)
(***************************************************************************)
TOKEN_METADATA_PREFIX == "P:"

UserKey(user_id) == TOKEN_METADATA_PREFIX \o "user:" \o ToString(user_id)

TokenKey(token) == TOKEN_METADATA_PREFIX \o token

Keys == {UserKey(u) : u \in Users} \cup {TokenKey(t) : t \in Tokens}

EmptyHash == <<>>

HSet(h, field, value) ==
    [f \in (DOMAIN h) \cup {field} |-> IF f = field THEN value ELSE h[f]]

HSetMapping(h, mapping) ==
    [f \in (DOMAIN h) \cup (DOMAIN mapping) |->
        IF f \in DOMAIN mapping THEN mapping[f] ELSE h[f]]

HGet(h, field) == IF field \in DOMAIN h THEN h[field] ELSE None

HDel(h, field) == [f \in (DOMAIN h) \ {field} |-> h[f]]

HGetAll(h) == h

\* Python truth value of the token argument: None and "" are both false.
Truthy(token) == token # None /\ token # ""

\* A remove that skips the comparison.
RemoveMatchesAlways(current, token) == TRUE

\* `if current == token`
RemoveMatches(current, token) == current = token

\* The mapping add_token writes under the token's own key.
TokenMetadata == [is_valid |-> "True"]

VARIABLES
    store,        \* Redis: key -> hash
    cli,          \* per CLI process: the command it runs and what it did
    opsStarted,   \* commands started so far
    lastForward   \* per user: the token of the last hset on the user key that
                  \* no hdel followed (None when there is none)

VARIABLES
    queueConf,    \* broker: the queue is absent, or exists with a configuration
                  \* the probe accepts (compatible) or rejects (incompatible)
    queueAtStart, \* the value of queueConf before any producer ran
    messages,     \* broker: the messages the queue holds, oldest first
    prod          \* per producer: its call of publish_test_event

VARIABLES
    norm          \* one run of the normalizer: its input, its clock and uuid
                  \* source, and the events it produced

tokenVars == <<store, cli, opsStarted, lastForward>>

pubVars == <<queueConf, queueAtStart, messages, prod>>

vars == <<store, cli, opsStarted, lastForward, queueConf, queueAtStart, messages, prod, norm>>

Idle ==
    [pc |-> "idle", op |-> "none", user_id |-> 42, token |-> None,
     current |-> None, data |-> EmptyHash, rc |-> -1,
     before |-> None, calls |-> <<>>, removed |-> None,
     connected |-> FALSE, raised |-> FALSE, interfered |-> FALSE]

StoreCalls == {"hgetall", "hset_user", "hset_token", "hget", "hdel"}

StoreWrites == {"hset_user", "hset_token", "hdel"}

\* A metadata entry the service left behind: the token was found invalid.
StaleMetadata == [is_valid |-> "False", last_validated |-> "t0"]

\* A store as earlier commands and the service left it: each user has no
\* mapping or a token, a mapped token has the metadata add_token wrote, and the
\* other tokens have no entry or a stale one.
StoreOf(mapping, stale) ==
    [k \in Keys |->
        IF \E u \in Users : k = UserKey(u) /\ mapping[u] # None
        THEN [token |-> mapping[CHOOSE u \in Users : k = UserKey(u)]]
        ELSE IF \E u \in Users, t \in Tokens : k = TokenKey(t) /\ mapping[u] = t
        THEN TokenMetadata
        ELSE IF \E t \in stale : k = TokenKey(t)
        THEN StaleMetadata
        ELSE EmptyHash]

TokenInit ==
    /\ \E mapping \in [Users -> Tokens \cup {None}], stale \in {{}, Tokens} :
          store = StoreOf(mapping, stale)
    /\ cli = [c \in Clients |-> Idle]
    /\ opsStarted = 0
    /\ lastForward = [u \in Users |-> None]

\* The other processes working on `user_id` see the user key change under them.
Interfere(c, user_id, cl) ==
    [d \in Clients |->
        IF d # c /\ cl[d].pc # "idle" /\ cl[d].user_id = user_id
        THEN [cl[d] EXCEPT !.interfered = TRUE]
        ELSE cl[d]]

\* An add_token that writes the metadata first and stops there.
AfterGetRedisMetadataFirst(op, token) ==
    CASE op = "list" -> "hgetall"
      [] op = "add" -> "hset_token"
      [] op = "remove" -> IF Truthy(token) THEN "hget" ELSE "hdel"

\* Where a command goes once get_redis returned a client.
AfterGetRedis(op, token) ==
    CASE op = "list" -> "hgetall"
      [] op = "add" -> "hset_user"
      [] op = "remove" -> IF Truthy(token) THEN "hget" ELSE "hdel"

\* The command lines parse_args accepts: --token is required by add, optional
\* for remove (None when omitted), and list has none.
CommandLines ==
    [op : {"list"}, user_id : Users, token : {None}]
    \cup [op : {"add"}, user_id : Users, token : Tokens]
    \cup [op : {"remove"}, user_id : Users, token : Tokens \cup {None}]

\* Processes are numbered in the order they are launched.
MayStart(c) ==
    /\ cli[c].pc \in {"idle", "exited"}
    /\ \A d \in Clients : d < c => cli[d].pc # "idle"

Launch(c, cmd, connected) ==
    [Idle EXCEPT !.pc = IF connected THEN AfterGetRedis(cmd.op, cmd.token) ELSE "exited",
                 !.rc = IF connected THEN -1 ELSE 1,
                 !.connected = connected,
                 !.op = cmd.op, !.user_id = cmd.user_id, !.token = cmd.token,
                 !.before = HGet(store[UserKey(cmd.user_id)], "token")]

\* main(): one command line; get_redis connects and its ping succeeds, so the
\* command stands before its first store call.
Start(c, cmd) ==
    /\ MayStart(c)
    /\ opsStarted < MaxOps
    /\ opsStarted' = opsStarted + 1
    /\ cli' = [cli EXCEPT ![c] = Launch(c, cmd, TRUE)]
    /\ UNCHANGED <<store, lastForward, pubVars, norm>>

\* main() where get_redis has no url, or its ping raises: get_redis prints and
\* returns None, and the command returns 1.
StartNoRedis(c, cmd) ==
    /\ MayStart(c)
    /\ opsStarted < MaxOps
    /\ opsStarted' = opsStarted + 1
    /\ cli' = [cli EXCEPT ![c] = Launch(c, cmd, FALSE)]
    /\ UNCHANGED <<store, lastForward, pubVars, norm>>

\* A store call after get_redis raises: nothing catches it, asyncio.run
\* re-raises and the interpreter exits with status 1.
StoreCallRaises(c) ==
    /\ cli[c].pc \in StoreCalls
    /\ cli' = [cli EXCEPT ![c].pc = "exited", ![c].rc = 1, ![c].raised = TRUE]
    /\ UNCHANGED <<store, opsStarted, lastForward, pubVars, norm>>

\* list_tokens: hgetall on the user key, print, return 0.
ListHGetAll(c) ==
    /\ cli[c].pc = "hgetall"
    /\ cli' = [cli EXCEPT ![c].pc = "exited", ![c].rc = 0,
                          ![c].data = HGetAll(store[UserKey(cli[c].user_id)]),
                          ![c].calls = Append(cli[c].calls, "hgetall")]
    /\ UNCHANGED <<store, opsStarted, lastForward, pubVars, norm>>

\* A forward write that keeps a token the user already has.
ForwardWriteKeepsOld(h, token) ==
    IF "token" \in DOMAIN h THEN h ELSE HSet(h, "token", token)

\* add_token, first write: hset(user_key, "token", token).
ForwardWrite(h, token) == HSet(h, "token", token)

AddHSetUser(c) ==
    LET u == cli[c].user_id
        k == UserKey(u) IN
    /\ cli[c].pc = "hset_user"
    /\ store' = [store EXCEPT ![k] = ForwardWrite(store[k], cli[c].token)]
    /\ lastForward' = [lastForward EXCEPT ![u] = cli[c].token]
    /\ cli' = [Interfere(c, u, cli) EXCEPT
                 ![c].pc = "hset_token",
                 ![c].calls = Append(cli[c].calls, "hset_user")]
    /\ UNCHANGED <<opsStarted, pubVars, norm>>

\* add_token, second write: hset(token_key, mapping={"is_valid": "True"}); return 0.
AddHSetToken(c) ==
    LET k == TokenKey(cli[c].token) IN
    /\ cli[c].pc = "hset_token"
    /\ store' = [store EXCEPT ![k] = HSetMapping(store[k], TokenMetadata)]
    /\ cli' = [cli EXCEPT ![c].pc = "exited", ![c].rc = 0,
                          ![c].calls = Append(cli[c].calls, "hset_token")]
    /\ UNCHANGED <<opsStarted, lastForward, pubVars, norm>>

\* remove_token with a token: hget, then compare; no match prints and returns 0.
RemoveHGet(c) ==
    LET cur == HGet(store[UserKey(cli[c].user_id)], "token") IN
    /\ cli[c].pc = "hget"
    /\ cli' = [cli EXCEPT
                 ![c].current = cur,
                 ![c].calls = Append(cli[c].calls, "hget"),
                 ![c].pc = IF RemoveMatches(cur, cli[c].token) THEN "hdel" ELSE "exited",
                 ![c].rc = IF RemoveMatches(cur, cli[c].token) THEN -1 ELSE 0]
    /\ UNCHANGED <<store, opsStarted, lastForward, pubVars, norm>>

\* A remove that also deletes the metadata entry of the token it unmaps.
RemoveHDelWithMetadata(c) ==
    LET u == cli[c].user_id
        k == UserKey(u)
        t == HGet(store[k], "token") IN
    /\ cli[c].pc = "hdel"
    /\ store' = [key \in Keys |->
                   IF key = k THEN HDel(store[k], "token")
                   ELSE IF t # None /\ key = TokenKey(t) THEN EmptyHash
                   ELSE store[key]]
    /\ lastForward' = [lastForward EXCEPT ![u] = None]
    /\ cli' = [Interfere(c, u, cli) EXCEPT
                 ![c].pc = "exited", ![c].rc = 0,
                 ![c].removed = HGet(store[k], "token"),
                 ![c].calls = Append(cli[c].calls, "hdel")]
    /\ UNCHANGED <<opsStarted, pubVars, norm>>

\* remove_token: hdel(user_key, "token") on either branch; return 0.
RemoveHDel(c) ==
    LET u == cli[c].user_id
        k == UserKey(u) IN
    /\ cli[c].pc = "hdel"
    /\ store' = [store EXCEPT ![k] = HDel(store[k], "token")]
    /\ lastForward' = [lastForward EXCEPT ![u] = None]
    /\ cli' = [Interfere(c, u, cli) EXCEPT
                 ![c].pc = "exited", ![c].rc = 0,
                 ![c].removed = HGet(store[k], "token"),
                 ![c].calls = Append(cli[c].calls, "hdel")]
    /\ UNCHANGED <<opsStarted, pubVars, norm>>

TokenNext ==
    \/ \E c \in Clients, cmd \in CommandLines : Start(c, cmd)
    \/ \E c \in Clients, cmd \in CommandLines : StartNoRedis(c, cmd)
    \/ \E c \in Clients : StoreCallRaises(c)
    \/ \E c \in Clients : ListHGetAll(c)
    \/ \E c \in Clients : AddHSetUser(c)
    \/ \E c \in Clients : AddHSetToken(c)
    \/ \E c \in Clients : RemoveHGet(c)
    \/ \E c \in Clients : RemoveHDel(c)

(***************************************************************************)
(* NotificationEvent (schemas.py) and the event publish_test_event builds. *)
(* A Python value is a record of its type and content; a string is the     *)
(* sequence of its characters, a dict is named by a string.                *)
(***************************************************************************)
IntV(n) == [type |-> "int", int |-> n, str |-> <<>>]

StrV(s) == [type |-> "str", int |-> 0, str |-> s]

NoneV == [type |-> "none", int |-> 0, str |-> <<>>]

UuidV(n) == [type |-> "uuid", int |-> n, str |-> <<>>]

TimeV(t) == [type |-> "time", int |-> t, str |-> <<>>]

DictV(name) == [type |-> "dict", int |-> 0, str |-> name]

\* bool(v) for the values the publisher tests: None, "" and {} are false.
TruthyV(v) == v.type # "none" /\ (v.type \in {"str", "dict"} => v.str # <<>>)

Digits == {"0", "1", "2", "3", "4", "5", "6", "7", "8", "9"}

DigitValue(ch) ==
    CASE ch = "0" -> 0 [] ch = "1" -> 1 [] ch = "2" -> 2 [] ch = "3" -> 3
      [] ch = "4" -> 4 [] ch = "5" -> 5 [] ch = "6" -> 6 [] ch = "7" -> 7
      [] ch = "8" -> 8 [] ch = "9" -> 9

Whitespace == {" "}

RECURSIVE LStrip(_)
LStrip(s) == IF s # <<>> /\ Head(s) \in Whitespace THEN LStrip(Tail(s)) ELSE s

RECURSIVE RStrip(_)
RStrip(s) ==
    IF s # <<>> /\ s[Len(s)] \in Whitespace
    THEN RStrip(SubSeq(s, 1, Len(s) - 1)) ELSE s

Strip(s) == RStrip(LStrip(s))

\* The text after an optional sign.
Unsigned(s) == IF s # <<>> /\ Head(s) \in {"+", "-"} THEN Tail(s) ELSE s

\* int(s) accepts: surrounding whitespace, an optional sign, then decimal
\* digits, with single underscores allowed between digits.
ParsesAsInt(s) ==
    LET body == Unsigned(Strip(s)) IN
    /\ body # <<>>
    /\ \A i \in 1..Len(body) : body[i] \in Digits \cup {"_"}
    /\ body[1] # "_" /\ body[Len(body)] # "_"
    /\ \A i \in 1..(Len(body) - 1) : ~(body[i] = "_" /\ body[i + 1] = "_")

RECURSIVE Magnitude(_, _)
Magnitude(body, acc) ==
    IF body = <<>> THEN acc
    ELSE IF Head(body) = "_" THEN Magnitude(Tail(body), acc)
    ELSE Magnitude(Tail(body), 10 * acc + DigitValue(Head(body)))

\* int(s) for a string that parses.
IntOf(s) ==
    LET t == Strip(s) IN
    IF t # <<>> /\ Head(t) = "-"
    THEN 0 - Magnitude(Unsigned(t), 0)
    ELSE Magnitude(Unsigned(t), 0)

\* A post-init hook that leaves every string as it is.
CoerceUserIdKeepsString(v) == v

\* model_post_init: a str user_id becomes int(user_id); on ValueError it is
\* kept and a warning is printed.
CoerceUserId(v) ==
    IF v.type = "str"
    THEN IF ParsesAsInt(v.str) THEN IntV(IntOf(v.str)) ELSE v
    ELSE v

\* The fields of NotificationEvent.
EventFields == {"event_id", "user_id", "template_id", "payload", "created_at"}

\* The types each field's annotation accepts.  An event_id and a created_at
\* that arrive as text are taken as already parsed.
FieldTypes ==
    [event_id |-> {"uuid", "none"},
     user_id |-> {"int", "str"},
     template_id |-> {"str", "none"},
     payload |-> {"dict", "none"},
     created_at |-> {"time", "none"}]

\* Validation passes: user_id is there and every given field has a type its
\* annotation accepts.  Keys that are no fields are ignored.
Valid(raw) ==
    /\ "user_id" \in DOMAIN raw
    /\ \A k \in EventFields \cap DOMAIN raw : raw[k].type \in FieldTypes[k]

\* An event_id that is made anew on every normalization.
DefaultEventIdAlways(raw, fresh) == UuidV(fresh)

\* event_id: Field(default_factory=uuid4)
DefaultEventId(raw, fresh) ==
    IF "event_id" \in DOMAIN raw THEN raw["event_id"] ELSE UuidV(fresh)

\* created_at: Field(default_factory=datetime.utcnow)
DefaultCreatedAt(raw, now) ==
    IF "created_at" \in DOMAIN raw THEN raw["created_at"] ELSE TimeV(now)

\* template_id, payload: default None
DefaultNone(raw, k) == IF k \in DOMAIN raw THEN raw[k] ELSE NoneV

\* NotificationEvent(**raw) for a valid raw.
Normalize(raw, fresh, now) ==
    [event_id |-> DefaultEventId(raw, fresh),
     user_id |-> CoerceUserId(raw["user_id"]),
     template_id |-> DefaultNone(raw, "template_id"),
     payload |-> DefaultNone(raw, "payload"),
     created_at |-> DefaultCreatedAt(raw, now)]

\* model_dump(): the event as a mapping of its five fields.
Dump(event) == [k \in EventFields |-> event[k]]

\* The dict publish_test_event builds (lines 29-58).
BuildEvent(user_id, event_id, template_code, inline_payload, fresh, now) ==
    LET base == [event_id |-> IF TruthyV(event_id) THEN event_id ELSE UuidV(fresh),
                 user_id |-> user_id,
                 created_at |-> TimeV(now)] IN
    IF TruthyV(template_code)
    THEN [k \in DOMAIN base \cup {"template_code", "variables", "language"} |->
            CASE k = "template_code" -> template_code
              [] k = "variables" -> DictV(<<"v">>)
              [] k = "language" -> StrV(<<"e", "n">>)
              [] OTHER -> base[k]]
    ELSE [k \in DOMAIN base \cup {"payload"} |->
            IF k = "payload"
            THEN IF TruthyV(inline_payload) THEN inline_payload ELSE DictV(<<"default">>)
            ELSE base[k]]

Alphabet == {"1", "2", "3", "a", "b", "c", "-", " ", "_"}

Strings == UNION {[1..k -> Alphabet] : k \in 0..MaxStrLen}

\* The user_id values that arrive: integers and strings.
UserIdInputs == {IntV(n) : n \in {77, 0, -5}} \cup {StrV(s) : s \in Strings}

Absent == [type |-> "absent", int |-> 0, str |-> <<>>]

\* The mapping that has the keys given a value other than Absent.
RawOf(given) == [k \in {f \in DOMAIN given : given[f] # Absent} |-> given[k]]

\* The messages that arrive on the queue: every user_id with the other fields
\* given, and every way of giving or leaving out the fields.
WireInputs ==
    { RawOf([event_id |-> UuidV(0), user_id |-> u, template_id |-> StrV(<<"t">>),
             payload |-> Absent, created_at |-> TimeV(0)]) : u \in UserIdInputs }
    \cup
    { RawOf(g) : g \in [event_id : {Absent, NoneV, UuidV(0)},
                        user_id : {Absent, NoneV, IntV(77), StrV(<<"1", "2">>),
                                   StrV(<<"a">>)},
                        template_id : {Absent, NoneV, StrV(<<"t">>)},
                        payload : {Absent, DictV(<<"p">>)},
                        created_at : {Absent, TimeV(0)}] }

\* The arguments of publish_test_event.
PublisherArgs ==
    [user_id : {IntV(123), IntV(77)},
     event_id : {NoneV, UuidV(0)},
     template_code : {NoneV, StrV(<<>>), StrV(<<"w">>)},
     inline_payload : {NoneV, DictV(<<>>), DictV(<<"p">>)}]

NormIdle ==
    norm = [pc |-> "start", origin |-> "none", raw |-> <<>>,
            event |-> <<>>, again |-> <<>>, clock |-> 1, uuids |-> 1,
            normalizedAt |-> 0]

\* A message arrives from the queue.
NReceive(raw) ==
    /\ norm.pc = "start"
    /\ norm' = [norm EXCEPT !.pc = "raw", !.origin = "wire", !.raw = raw]
    /\ UNCHANGED <<tokenVars, pubVars>>

\* publish_test_event builds its event, which arrives unchanged.
NBuild(args) ==
    /\ norm.pc = "start"
    /\ norm' = [norm EXCEPT
                  !.pc = "raw", !.origin = "publisher",
                  !.raw = BuildEvent(args.user_id, args.event_id, args.template_code,
                                     args.inline_payload, norm.uuids, norm.clock),
                  !.uuids = norm.uuids + 1]
    /\ UNCHANGED <<tokenVars, pubVars>>

\* Time passes.
NTick ==
    /\ norm.pc \in {"raw", "normalized"}
    /\ norm.clock < MaxClock + 1
    /\ norm' = [norm EXCEPT !.clock = norm.clock + 1]
    /\ UNCHANGED <<tokenVars, pubVars>>

\* NotificationEvent(**raw) succeeds.
NNormalize ==
    /\ norm.pc = "raw"
    /\ Valid(norm.raw)
    /\ norm' = [norm EXCEPT !.pc = "normalized",
                            !.event = Normalize(norm.raw, norm.uuids, norm.clock),
                            !.normalizedAt = norm.clock,
                            !.uuids = norm.uuids + 1]
    /\ UNCHANGED <<tokenVars, pubVars>>

\* NotificationEvent(**raw) raises ValidationError.
NReject ==
    /\ norm.pc = "raw"
    /\ ~Valid(norm.raw)
    /\ norm' = [norm EXCEPT !.pc = "rejected"]
    /\ UNCHANGED <<tokenVars, pubVars>>

\* The consumer normalizes the canonical event again.
NRenormalize ==
    /\ norm.pc = "normalized"
    /\ norm' = [norm EXCEPT !.pc = "renormalized",
                            !.again = Normalize(Dump(norm.event), norm.uuids, norm.clock),
                            !.uuids = norm.uuids + 1]
    /\ UNCHANGED <<tokenVars, pubVars>>

(***************************************************************************)
(* publish_test_event (scripts/test_push_consumer.py).  Each producer is   *)
(* one call; every broker call is one step.  A producer opens at most two  *)
(* connections and two channels, numbered in the order it opens them.      *)
(***************************************************************************)
NotCalled ==
    [pc |-> "idle",
     connection |-> 0,       \* the connection the variable `connection` holds
     channel |-> 0,          \* the channel the variable `channel` holds
     opened |-> 0,           \* connections opened so far
     openConns |-> {},       \* its connections that are open
     openChans |-> {},       \* its channels that are open
     chanConn |-> <<>>,      \* channel -> the connection it was opened on
     probe |-> "none",       \* how the passive declare ended
     probeChan |-> 0,        \* the channel the passive declare was sent on
     pubChan |-> 0,          \* the channel basic_publish was sent on
     brokerOps |-> <<>>,     \* the queue operations sent to the broker
     raisedAt |-> "none",    \* the call whose exception ended the try body
     result |-> "none"]      \* the value returned: "True" or "False"

PubIdle ==
    /\ queueConf = "compatible"
    /\ queueAtStart = "compatible"
    /\ messages = <<>>
    /\ prod = [p \in Producers |-> NotCalled]

TokenIdle ==
    /\ store = [k \in Keys |-> EmptyHash]
    /\ cli = [c \in Clients |-> Idle]
    /\ opsStarted = 0
    /\ lastForward = [u \in Users |-> None]

PubInit ==
    /\ queueConf \in {"absent", "compatible", "incompatible"}
    /\ queueAtStart = queueConf
    /\ messages = <<>>
    /\ prod = [p \in Producers |-> NotCalled]

\* A try that starts after the connection is made.
TryBodyAfterConnect == {"channel", "probe", "rechannel", "publish", "close"}

\* The calls the outer try (lines 62-110) encloses.
TryBody == {"connect", "channel", "probe", "reconnect", "rechannel", "publish", "close"}

\* `except Exception` of the outer try: print and return False.  An exception
\* raised outside the try body leaves the call.
Raise(r, stage) ==
    IF stage \in TryBody
    THEN [r EXCEPT !.pc = "done", !.raisedAt = stage, !.result = "False"]
    ELSE [r EXCEPT !.pc = "escaped", !.raisedAt = stage]

\* A publish without the persistent delivery mode.
MessageTransient(p) == [producer |-> p, delivery_mode |-> 1]

\* The message handed to basic_publish.
Message(p) == [producer |-> p, delivery_mode |-> 2]

\* A declare without passive=True creates a missing queue.
DeclareCreates(conf) == IF conf = "absent" THEN "compatible" ELSE conf

\* queue_declare(passive=True): the broker checks and changes nothing.
PassiveDeclare(conf) == conf

\* What the broker does with a message published to the default exchange with
\* the queue name as routing key and no mandatory flag: it appends it to the
\* queue, and drops it when no such queue exists.
Route(conf, msgs, msg) == IF conf = "absent" THEN msgs ELSE Append(msgs, msg)

Usable(r, ch) ==
    /\ ch \in r.openChans
    /\ r.chanConn[ch] \in r.openConns

\* A handler that has no clause for ChannelClosedByBroker.
ProbeHandlerOuterOnly(exc) ==
    CASE exc = "ok" -> "publish"
      [] exc = "ChannelClosedByBroker" -> "raise"
      [] exc = "Exception" -> "publish"

\* A handler that recovers on every exception of the probe.
ProbeHandlerRecoverAll(exc) ==
    CASE exc = "ok" -> "publish"
      [] exc = "ChannelClosedByBroker" -> "recover"
      [] exc = "Exception" -> "recover"

\* A handler whose second clause gives up instead of continuing.
ProbeHandlerAbortOnError(exc) ==
    CASE exc = "ok" -> "publish"
      [] exc = "ChannelClosedByBroker" -> "recover"
      [] exc = "Exception" -> "raise"

\* The inner try around the passive declare: where the call continues.
ProbeHandler(exc) ==
    CASE exc = "ok" -> "publish"
      [] exc = "ChannelClosedByBroker" -> "recover"
      [] exc = "Exception" -> "publish"

\* connection.channel(): a channel this producer has not had before.
FreshChannel(r) == Cardinality(DOMAIN r.chanConn) + 1

Call(p) ==
    /\ prod[p].pc = "idle"
    /\ \A q \in Producers : q < p => prod[q].pc # "idle"
    /\ prod' = [prod EXCEPT ![p].pc = "connect"]
    /\ UNCHANGED <<queueConf, queueAtStart, messages, tokenVars, norm>>

\* pika.BlockingConnection(...)
Connect(p) ==
    /\ prod[p].pc = "connect"
    /\ prod' = [prod EXCEPT ![p].pc = "channel",
                            ![p].opened = 1,
                            ![p].connection = 1,
                            ![p].openConns = {1}]
    /\ UNCHANGED <<queueConf, queueAtStart, messages, tokenVars, norm>>

\* channel = connection.channel()
OpenChannel(p) ==
    LET r == prod[p] IN
    /\ r.pc = "channel"
    /\ prod' = [prod EXCEPT ![p].pc = "probe",
                            ![p].channel = FreshChannel(r),
                            ![p].openChans = r.openChans \cup {FreshChannel(r)},
                            ![p].chanConn = Append(r.chanConn, r.connection)]
    /\ UNCHANGED <<queueConf, queueAtStart, messages, tokenVars, norm>>

Probed(r, outcome) ==
    [r EXCEPT !.probe = outcome,
              !.probeChan = r.channel,
              !.brokerOps = Append(r.brokerOps, "queue_declare_passive")]

AfterProbe(r, exc) ==
    IF ProbeHandler(exc) = "raise"
    THEN Raise(r, "probe")
    ELSE [r EXCEPT !.pc = ProbeHandler(exc)]

\* channel.queue_declare(queue, passive=True) finds the queue as it expects it.
ProbeOk(p) ==
    /\ prod[p].pc = "probe"
    /\ queueConf = "compatible"
    /\ queueConf' = PassiveDeclare(queueConf)
    /\ prod' = [prod EXCEPT ![p] = AfterProbe(Probed(prod[p], "ok"), "ok")]
    /\ UNCHANGED <<queueAtStart, messages, tokenVars, norm>>

\* The broker answers the passive declare by closing the channel: 406 for a
\* queue with other arguments, 404 for a missing queue.  The connection may be
\* closed with it.
ProbeClosedByBroker(p, connectionClosed) ==
    LET r == prod[p]
        closed == [r EXCEPT !.openChans = r.openChans \ {r.channel},
                            !.openConns = IF connectionClosed
                                          THEN r.openConns \ {r.connection}
                                          ELSE r.openConns] IN
    /\ r.pc = "probe"
    /\ queueConf \in {"absent", "incompatible"}
    /\ queueConf' = PassiveDeclare(queueConf)
    /\ prod' = [prod EXCEPT ![p] =
                  AfterProbe(Probed(closed, IF queueConf = "absent" THEN "404" ELSE "406"),
                             "ChannelClosedByBroker")]
    /\ UNCHANGED <<queueAtStart, messages, tokenVars, norm>>

\* The passive declare raises anything else (the connection is lost, a
\* timeout): warn and continue with the channel held.
ProbeOtherError(p, connectionLost) ==
    LET r == prod[p]
        after == [r EXCEPT !.openConns = IF connectionLost
                                         THEN r.openConns \ {r.connection}
                                         ELSE r.openConns] IN
    /\ r.pc = "probe"
    /\ queueConf' = PassiveDeclare(queueConf)
    /\ prod' = [prod EXCEPT ![p] = AfterProbe(Probed(after, "error"), "Exception")]
    /\ UNCHANGED <<queueAtStart, messages, tokenVars, norm>>

\* `if connection.is_closed:` connection = pika.BlockingConnection(...)
Reconnect(p) ==
    LET r == prod[p] IN
    /\ r.pc = "recover"
    /\ r.connection \notin r.openConns
    /\ prod' = [prod EXCEPT ![p].opened = r.opened + 1,
                            ![p].connection = r.opened + 1,
                            ![p].openConns = r.openConns \cup {r.opened + 1}]
    /\ UNCHANGED <<queueConf, queueAtStart, messages, tokenVars, norm>>

\* channel = connection.channel() in the ChannelClosedByBroker handler.
RecoverChannel(p) ==
    LET r == prod[p] IN
    /\ r.pc = "recover"
    /\ r.connection \in r.openConns
    /\ prod' = [prod EXCEPT ![p].pc = "publish",
                            ![p].channel = FreshChannel(r),
                            ![p].openChans = r.openChans \cup {FreshChannel(r)},
                            ![p].chanConn = Append(r.chanConn, r.connection)]
    /\ UNCHANGED <<queueConf, queueAtStart, messages, tokenVars, norm>>

\* channel.basic_publish(exchange='', routing_key=queue, body, delivery_mode=2)
Publish(p) ==
    LET r == prod[p] IN
    /\ r.pc = "publish"
    /\ Usable(r, r.channel)
    /\ messages' = Route(queueConf, messages, Message(p))
    /\ prod' = [prod EXCEPT ![p].pc = "close",
                            ![p].pubChan = r.channel,
                            ![p].brokerOps = Append(r.brokerOps, "basic_publish")]
    /\ UNCHANGED <<queueConf, queueAtStart, tokenVars, norm>>

\* connection.close(); return True
Close(p) ==
    LET r == prod[p] IN
    /\ r.pc = "close"
    /\ r.connection \in r.openConns
    /\ prod' = [prod EXCEPT ![p].pc = "done",
                            ![p].result = "True",
                            ![p].openConns = r.openConns \ {r.connection},
                            ![p].openChans =
                                {ch \in r.openChans : r.chanConn[ch] # r.connection}]
    /\ UNCHANGED <<queueConf, queueAtStart, messages, tokenVars, norm>>

\* The stage of the call a producer stands before.
Stage(r) ==
    CASE r.pc = "recover" ->
            IF r.connection \in r.openConns THEN "rechannel" ELSE "reconnect"
      [] OTHER -> r.pc

\* A broker call other than the probe raises (the broker is unreachable, the
\* channel or the connection is closed): the exception goes to the outer try.
BrokerCallRaises(p) ==
    LET r == prod[p]
        tried == IF r.pc = "publish"
                 THEN [r EXCEPT !.pubChan = r.channel,
                                !.brokerOps = Append(r.brokerOps, "basic_publish")]
                 ELSE r IN
    /\ r.pc \in {"connect", "channel", "recover", "publish", "close"}
    /\ prod' = [prod EXCEPT ![p] = Raise(tried, Stage(r))]
    /\ UNCHANGED <<queueConf, queueAtStart, messages, tokenVars, norm>>

PublishNext ==
    \/ \E p \in Producers : Call(p)
    \/ \E p \in Producers : Connect(p)
    \/ \E p \in Producers : OpenChannel(p)
    \/ \E p \in Producers : ProbeOk(p)
    \/ \E p \in Producers, b \in BOOLEAN : ProbeClosedByBroker(p, b)
    \/ \E p \in Producers, b \in BOOLEAN : ProbeOtherError(p, b)
    \/ \E p \in Producers : Reconnect(p)
    \/ \E p \in Producers : RecoverChannel(p)
    \/ \E p \in Producers : Publish(p)
    \/ \E p \in Producers : Close(p)
    \/ \E p \in Producers : BrokerCallRaises(p)

PublishInit == PubInit /\ TokenIdle /\ NormIdle

PublishSpec == PublishInit /\ [][PublishNext]_vars

NormalizeNext ==
    \/ \E raw \in WireInputs : NReceive(raw)
    \/ \E args \in PublisherArgs : NBuild(args)
    \/ NTick
    \/ NNormalize
    \/ NReject
    \/ NRenormalize

NormalizeInit == NormIdle /\ TokenIdle /\ PubIdle

NormalizeSpec == NormalizeInit /\ [][NormalizeNext]_vars

Init == TokenInit /\ PubIdle /\ NormIdle

Next == TokenNext

Spec == Init /\ [][Next]_vars

(***************************************************************************)
(* The end-to-end scenario: one shell runs six commands one after another  *)
(* against a reachable store in which user 42 has no mapping.              *)
(***************************************************************************)
Script ==
    << [op |-> "add", user_id |-> 42, token |-> "T1"],
       [op |-> "list", user_id |-> 42, token |-> None],
       [op |-> "remove", user_id |-> 42, token |-> "T2"],
       [op |-> "list", user_id |-> 42, token |-> None],
       [op |-> "remove", user_id |-> 42, token |-> "T1"],
       [op |-> "list", user_id |-> 42, token |-> None] >>

ScenarioInit ==
    /\ \E valid \in SUBSET Tokens, stale \in SUBSET Tokens :
          store = [k \in Keys |->
                     IF \E t \in valid : k = TokenKey(t) THEN TokenMetadata
                     ELSE IF \E t \in stale : k = TokenKey(t) THEN StaleMetadata
                     ELSE EmptyHash]
    /\ cli = [c \in Clients |-> Idle]
    /\ opsStarted = 0
    /\ lastForward = [u \in Users |-> None]
    /\ PubIdle
    /\ NormIdle

ScriptStart ==
    /\ MayStart(1)
    /\ opsStarted < Len(Script)
    /\ opsStarted' = opsStarted + 1
    /\ cli' = [cli EXCEPT ![1] = Launch(1, Script[opsStarted + 1], TRUE)]
    /\ UNCHANGED <<store, lastForward, pubVars, norm>>

ScenarioNext ==
    \/ ScriptStart
    \/ ListHGetAll(1)
    \/ AddHSetUser(1)
    \/ AddHSetToken(1)
    \/ RemoveHGet(1)
    \/ RemoveHDel(1)

ScenarioSpec == ScenarioInit /\ [][ScenarioNext]_vars

(***************************************************************************)
(* Properties of the token store                                           *)
(***************************************************************************)
UserToken(user_id) == HGet(store[UserKey(user_id)], "token")

Exited(c) == cli[c].pc = "exited"

\* The command ran with the store reachable at every call.
Reachable(c) == Exited(c) /\ cli[c].connected /\ ~cli[c].raised

Issued(c, call) == \E i \in 1..Len(cli[c].calls) : cli[c].calls[i] = call

Writes(c) == SelectSeq(cli[c].calls, LAMBDA x : x \in StoreWrites)

\* C2 (as claimed): run without interleaving writers, remove_token(u, t) with a
\* supplied token t and stored value s deletes the user's token field if and
\* only if s = t; when s # t the mapping is still s afterwards and it returns 0.
C2_RemoveDeletesIffEqual ==
    \A c \in Clients :
        (/\ Reachable(c)
         /\ cli[c].op = "remove"
         /\ cli[c].token # None
         /\ ~cli[c].interfered)
        => /\ Issued(c, "hdel") <=> (cli[c].before = cli[c].token)
           /\ cli[c].before # cli[c].token
                => UserToken(cli[c].user_id) = cli[c].before /\ cli[c].rc = 0

\* The step of the scenario that has completed.
ScriptDone(n) == opsStarted = n /\ Exited(1)

\* C3: add(42,"T1"); list(42); remove(42,"T2"); list(42); remove(42,"T1");
\* list(42) from a store without a mapping for 42: the first and the second
\* list return a mapping with token = "T1", the last list returns the empty
\* mapping, and every step returns 0.
C3_Scenario ==
    /\ \A n \in 1..Len(Script) : ScriptDone(n) => cli[1].rc = 0
    /\ ScriptDone(2) => "token" \in DOMAIN cli[1].data /\ cli[1].data["token"] = "T1"
    /\ ScriptDone(3) => UserToken(42) = "T1" /\ ~Issued(1, "hdel")
    /\ ScriptDone(4) => "token" \in DOMAIN cli[1].data /\ cli[1].data["token"] = "T1"
    /\ ScriptDone(5) => UserToken(42) = None
    /\ ScriptDone(6) => cli[1].data = EmptyHash

C3_Witness == ScriptDone(6) /\ cli[1].op = "list" /\ cli[1].data = EmptyHash

\* C6: add_token is last-write-wins on the user key: while no remove deleted
\* it, the user hash holds exactly the one field token, whose value is the
\* token of the add whose forward write came last; and the metadata entry of
\* every token a completed add added has is_valid true.
C6_AddLastWriteWins ==
    /\ \A u \in Users :
          lastForward[u] # None => store[UserKey(u)] = [token |-> lastForward[u]]
    /\ \A c \in Clients :
          (Reachable(c) /\ cli[c].op = "add")
          => /\ "is_valid" \in DOMAIN store[TokenKey(cli[c].token)]
             /\ store[TokenKey(cli[c].token)]["is_valid"] = "True"

\* Two adds for one user with different tokens that overlapped, both completed.
C6_Witness ==
    \E c, d \in Clients :
        /\ c # d
        /\ Reachable(c) /\ Reachable(d)
        /\ cli[c].op = "add" /\ cli[d].op = "add"
        /\ cli[c].user_id = cli[d].user_id
        /\ cli[c].token # cli[d].token
        /\ cli[c].interfered /\ cli[d].interfered
        /\ UserToken(cli[c].user_id) = cli[d].token
        /\ cli[c].before # None /\ cli[c].before # cli[d].token

\* C7 (as claimed): remove_token takes the unconditional-delete branch exactly
\* when the token is omitted; with any supplied token, the empty string
\* included, it reads the stored value and deletes only on equality.
C7_UnconditionalIffOmitted ==
    \A c \in Clients :
        (Reachable(c) /\ cli[c].op = "remove")
        => /\ (cli[c].calls = <<"hdel">>) <=> (cli[c].token = None)
           /\ cli[c].token # None
                => /\ cli[c].calls[1] = "hget"
                   /\ Issued(c, "hdel") => cli[c].current = cli[c].token

\* The store writes each command makes when it completes as described.
WritesOf(c) ==
    CASE cli[c].op = "list" -> <<>>
      [] cli[c].op = "add" -> <<"hset_user", "hset_token">>
      [] cli[c].op = "remove" ->
            IF Issued(c, "hget") /\ cli[c].current # cli[c].token
            THEN <<>> ELSE <<"hdel">>

\* C8 (as claimed): under connectivity failures a command is all-or-nothing:
\* it makes all of its writes and returns 0, or it returns 1 having written
\* nothing.
C8_AllOrNothing ==
    \A c \in Clients :
        Exited(c)
        => \/ cli[c].rc = 0 /\ Writes(c) = WritesOf(c)
           \/ cli[c].rc = 1 /\ Writes(c) = <<>>

\* What the two commands leave when one runs after the other.
RemoveAtomic(h, token) ==
    IF Truthy(token)
    THEN IF RemoveMatches(HGet(h, "token"), token) THEN HDel(h, "token") ELSE h
    ELSE HDel(h, "token")

SequentialResults(h, removed, added) ==
    { ForwardWrite(RemoveAtomic(h, removed), added),
      RemoveAtomic(ForwardWrite(h, added), removed) }

\* remove(u, A) deleted a mapping whose value was B # A.
RacedRemove(c) ==
    /\ Reachable(c)
    /\ cli[c].op = "remove"
    /\ Truthy(cli[c].token)
    /\ Issued(c, "hdel")
    /\ cli[c].removed # cli[c].token

\* C9: remove_token(u, A) issues its delete only after it read A, yet the
\* mapping it deletes can hold another value: that happens exactly through a
\* writer that came between the read and the delete, and when the writer is
\* the only other command, add_token(u, B), the store ends with no mapping
\* for u, which neither sequential order of the two commands leaves.
C9_CheckThenDeleteRace ==
    \A c \in Clients :
        /\ (Reachable(c) /\ cli[c].op = "remove" /\ Truthy(cli[c].token)
              /\ Issued(c, "hdel"))
           => cli[c].current = cli[c].token
        /\ RacedRemove(c) => cli[c].interfered
        /\ \A d \in Clients :
              (/\ RacedRemove(c)
               /\ opsStarted = 2
               /\ Reachable(d) /\ cli[d].op = "add"
               /\ cli[d].user_id = cli[c].user_id)
              => /\ cli[c].removed = cli[d].token
                 /\ store[UserKey(cli[c].user_id)] = EmptyHash
                 /\ EmptyHash \notin
                      SequentialResults([token |-> cli[c].current],
                                        cli[c].token, cli[d].token)

\* remove(u, "T1") read "T1", add(u, "T2") then overwrote it, and the delete
\* removed the mapping to "T2".
C9_Witness ==
    \E c, d \in Clients :
        /\ RacedRemove(c)
        /\ cli[c].token = "T1" /\ cli[c].current = "T1" /\ cli[c].removed = "T2"
        /\ Reachable(d) /\ cli[d].op = "add" /\ cli[d].token = "T2"
        /\ cli[d].user_id = cli[c].user_id
        /\ opsStarted = 2
        /\ UserToken(cli[c].user_id) = None

(***************************************************************************)
(* Properties of publish_test_event                                        *)
(***************************************************************************)
Returned(p) == prod[p].pc = "done"

\* How often the producer called basic_publish.
Attempts(p) ==
    Len(SelectSeq(prod[p].brokerOps, LAMBDA op : op = "basic_publish"))

\* How often the queue holds the producer's message.
Queued(p) == Len(SelectSeq(messages, LAMBDA m : m = Message(p)))

\* C1: when the passive probe fails with the broker's channel-closing
\* configuration-mismatch error, the error neither leaves the call nor becomes
\* its result: the producer takes a fresh channel (on a new connection when
\* the broker closed the connection too), sends its one basic_publish on that
\* channel, and returns True unless one of the later calls (reconnect, channel,
\* publish, close) itself raises.
C1_MismatchRecovered ==
    \A p \in Producers :
        prod[p].probe = "406"
        => /\ prod[p].pc # "escaped"
           /\ prod[p].raisedAt # "probe"
           /\ Attempts(p) >= 1
                => /\ prod[p].pubChan # prod[p].probeChan
                   /\ prod[p].pubChan = Cardinality(DOMAIN prod[p].chanConn)
                   /\ prod[p].chanConn[prod[p].pubChan] = prod[p].connection
           /\ Returned(p)
                => /\ (prod[p].result = "True") <=> (prod[p].raisedAt = "none")
                   /\ prod[p].result = "True"
                        => /\ Attempts(p) = 1
                           /\ Queued(p) = 1

\* The broker closed channel and connection on the probe, and the call
\* reconnected, published on the second channel and returned True.
C1_Witness ==
    \E p \in Producers :
        /\ Returned(p)
        /\ prod[p].probe = "406"
        /\ prod[p].opened = 2
        /\ prod[p].pubChan = 2
        /\ prod[p].result = "True"
        /\ Queued(p) = 1

\* C4: an exception raised by basic_publish, or by connecting, is caught and
\* the call returns False; no exception leaves the call, and basic_publish is
\* attempted at most once per call.
C4_PublishFailureIsFalse ==
    \A p \in Producers :
        /\ prod[p].pc # "escaped"
        /\ Attempts(p) <= 1
        /\ prod[p].raisedAt \in {"connect", "reconnect", "publish"}
             => Returned(p) /\ prod[p].result = "False"
        /\ (Returned(p) /\ prod[p].result = "True") => prod[p].raisedAt = "none"

\* One producer's publish raised and another's connect raised.
C4_Witness ==
    \E p, q \in Producers :
        /\ Returned(p) /\ prod[p].raisedAt = "publish"
        /\ Attempts(p) = 1 /\ prod[p].result = "False"
        /\ Returned(q) /\ prod[q].raisedAt = "connect" /\ prod[q].result = "False"

\* C5 (as claimed): a call that opened a connection has released every
\* connection it opened when it returns, on success and on failure alike.
C5_ConnectionReleased ==
    \A p \in Producers :
        (Returned(p) /\ prod[p].opened > 0) => prod[p].openConns = {}

\* C10 (as claimed): whatever the producers' interleaving, the queue's
\* existence and configuration stay as they were, and the message of every
\* producer that returned True is in the queue.
C10_ConcurrentProducers ==
    /\ queueConf = queueAtStart
    /\ \A p \in Producers :
          (Returned(p) /\ prod[p].result = "True") => Queued(p) = 1

\* C10 (amended): whatever the producers' interleaving, the queue's existence
\* and configuration stay as they were; when the queue exists, the message of
\* every producer whose basic_publish completed, so of every producer that
\* returned True, is in the queue exactly once;
\* when it does not exist the broker drops the message and the queue stays
\* empty, though the producer returns True.
C10_ConcurrentProducersQueueExists ==
    /\ queueConf = queueAtStart
    /\ \A p \in Producers :
          /\ (Returned(p) /\ prod[p].result = "True" /\ queueConf # "absent")
               => Queued(p) = 1
          /\ (prod[p].pc \in {"close", "done"} /\ prod[p].raisedAt \in {"none", "close"}
                /\ queueConf # "absent")
               => Queued(p) = 1
          /\ Queued(p) <= 1
          /\ Queued(p) = 1 => Attempts(p) = 1 /\ prod[p].raisedAt \in {"none", "close"}
    /\ queueConf = "absent" => messages = <<>>

\* Two producers overlapped on a queue with other arguments, both recovered
\* and both returned True with their messages in the queue.
C10_Witness ==
    /\ queueConf = "incompatible"
    /\ Len(messages) = 2
    /\ \A p \in {1, 2} :
          /\ Returned(p) /\ prod[p].result = "True"
          /\ prod[p].probe = "406"
          /\ Queued(p) = 1
    /\ messages[1] = Message(2)

\* The call took the recovery path: it stands in the ChannelClosedByBroker
\* handler, or has reconnected or taken a second channel there, or raised there.
TookRecovery(p) ==
    \/ prod[p].pc = "recover"
    \/ prod[p].opened = 2
    \/ Cardinality(DOMAIN prod[p].chanConn) = 2
    \/ prod[p].raisedAt \in {"reconnect", "rechannel"}

\* C13 (as claimed): the publisher takes the recovery path only when the probe
\* failed because the queue exists with an incompatible configuration; every
\* other probe failure, a missing queue included, takes the degraded path.
C13_RecoveryOnlyOnMismatch ==
    \A p \in Producers :
        /\ TookRecovery(p) => prod[p].probe = "406"
        /\ prod[p].probe \in {"404", "error"} => ~TookRecovery(p)

\* C13 (amended): the publisher takes the recovery path exactly when the probe
\* ended with the broker closing the channel, which is the answer to a queue
\* with an incompatible configuration (406) and to a missing queue (404)
\* alike; every other probe failure takes the degraded path, and a probe that
\* succeeded takes neither.
C13_RecoveryOnChannelClosed ==
    \A p \in Producers :
        /\ TookRecovery(p) => prod[p].probe \in {"406", "404"}
        /\ (prod[p].probe \in {"406", "404"} /\ prod[p].pc # "escaped")
             => TookRecovery(p)
        /\ prod[p].probe \in {"error", "ok"} => ~TookRecovery(p)
        /\ prod[p].probe = "406" => queueConf = "incompatible"
        /\ prod[p].probe = "404" => queueConf = "absent"

\* A call whose probe met a missing queue recovered and published on its
\* second channel.
C13_Witness ==
    \E p \in Producers :
        /\ prod[p].probe = "404"
        /\ TookRecovery(p)
        /\ prod[p].pubChan = 2
        /\ Returned(p)

\* The probe raised something other than ChannelClosedByBroker.
Degraded(p) == prod[p].probe = "error"

\* C14: when the probe fails with an error other than the broker closing the
\* channel, the call does not abort: it goes on to exactly one basic_publish
\* on the channel and connection it already holds, and it returns True if
\* that publish and the close succeed and False otherwise.
C14_DegradedStillPublishes ==
    \A p \in Producers :
        Degraded(p)
        => /\ prod[p].pc \in {"publish", "close", "done"}
           /\ prod[p].raisedAt \in {"none", "publish", "close"}
           /\ prod[p].opened = 1
           /\ prod[p].channel = prod[p].probeChan
           /\ Cardinality(DOMAIN prod[p].chanConn) = 1
           /\ Attempts(p) >= 1 => prod[p].pubChan = prod[p].probeChan
           /\ Returned(p)
                => /\ Attempts(p) = 1
                   /\ (prod[p].result = "True") <=> (prod[p].raisedAt = "none")
                   /\ (prod[p].result = "False")
                        <=> (prod[p].raisedAt \in {"publish", "close"})

\* One degraded call returned True and another returned False after its
\* publish raised.
C14_Witness ==
    \E p, q \in Producers :
        /\ Degraded(p) /\ Returned(p) /\ prod[p].result = "True" /\ Attempts(p) = 1
        /\ Degraded(q) /\ Returned(q) /\ prod[q].result = "False"
        /\ prod[q].raisedAt = "publish" /\ Attempts(q) = 1

\* C15: on every path the queue operations a call sends are the passive probe,
\* once and first, and at most one basic_publish; every message that reaches
\* the queue carries delivery_mode 2; no declare that creates or alters the
\* queue is sent, so the queue's configuration stays as it was.
C15_ProbeAndOnePublishOnly ==
    /\ queueConf = queueAtStart
    /\ \A i \in 1..Len(messages) : messages[i].delivery_mode = 2
    /\ \A p \in Producers :
          /\ Attempts(p) >= 1 => Message(p).delivery_mode = 2
          /\ prod[p].brokerOps \in
                { <<>>,
                  <<"queue_declare_passive">>,
                  <<"queue_declare_passive", "basic_publish">> }
          /\ prod[p].probe # "none" <=> prod[p].brokerOps # <<>>

\* A recovered call and a degraded call have both published and returned True.
C15_Witness ==
    /\ \E p \in Producers :
          /\ Returned(p) /\ prod[p].result = "True"
          /\ prod[p].probe \in {"406", "404"}
          /\ prod[p].brokerOps = <<"queue_declare_passive", "basic_publish">>
    /\ \E p \in Producers :
          /\ Returned(p) /\ prod[p].result = "True"
          /\ prod[p].probe = "error"
          /\ prod[p].brokerOps = <<"queue_declare_passive", "basic_publish">>
    /\ Len(messages) = 2

\* basic_publish returned without raising.
PublishCompleted(p) ==
    /\ Attempts(p) = 1
    /\ prod[p].raisedAt \in {"none", "close"}
    /\ prod[p].pc \in {"close", "done"}

\* C19 (as claimed): the call returns True if and only if basic_publish
\* completed without error, so a False result implies that the message was
\* not handed to the broker.
C19_ResultIffPublished ==
    \A p \in Producers :
        Returned(p)
        => /\ (prod[p].result = "True") <=> PublishCompleted(p)
           /\ prod[p].result = "False" => Queued(p) = 0

\* The metadata entry of each token.
Metadata(s) == [t \in Tokens |-> s[TokenKey(t)]]

\* The process made a store call in this step.
Called(c) == Len(cli'[c].calls) > Len(cli[c].calls)

\* C16: the forward mapping and the token metadata are updated independently:
\* no step of remove_token, on either branch, changes any metadata entry;
\* list_tokens changes nothing in the store; a step of add_token(u, B) leaves
\* the entry of every other token, the previously mapped one included, as it
\* was; and no step ever deletes a metadata entry or a field of one.
C16_MetadataIndependent ==
    [][ /\ \A c \in Clients :
              /\ (Called(c) /\ cli[c].op = "remove")
                   => Metadata(store') = Metadata(store)
              /\ (Called(c) /\ cli[c].op = "list") => store' = store
              /\ (Called(c) /\ cli[c].op = "add")
                   => \A t \in Tokens \ {cli[c].token} :
                         Metadata(store')[t] = Metadata(store)[t]
        /\ \A t \in Tokens :
              /\ DOMAIN Metadata(store)[t] \subseteq DOMAIN Metadata(store')[t]
              /\ ("is_valid" \in DOMAIN Metadata(store)[t]
                    /\ Metadata(store)[t]["is_valid"] = "True")
                   => Metadata(store')[t]["is_valid"] = "True"
      ]_vars

\* add_token(u, B) completed over a mapping u -> A and a remove deleted the
\* mapping, and the entry of A is still there with is_valid true.
C16_Witness ==
    \E c, d \in Clients :
        /\ Reachable(c) /\ cli[c].op = "add"
        /\ cli[c].before \notin {None, cli[c].token}
        /\ store[TokenKey(cli[c].before)] = TokenMetadata
        /\ Reachable(d) /\ cli[d].op = "remove" /\ Issued(d, "hdel")
        /\ cli[d].removed = cli[c].token
        /\ store[TokenKey(cli[c].token)] = TokenMetadata
        /\ UserToken(cli[c].user_id) = None

\* add_token stands between get_redis and its first write.
BeforeFirstWrite(c) ==
    /\ cli[c].op = "add"
    /\ cli[c].pc \in StoreCalls
    /\ cli[c].calls = <<>>

\* add_token ended by an exception with exactly one of its two writes made.
CrashedBetweenWrites(c) ==
    /\ Exited(c) /\ cli[c].raised
    /\ cli[c].op = "add"
    /\ Len(Writes(c)) = 1

\* C17 (as claimed): a crash of add_token between its two writes can leave
\* either partial state, so either write can be the one that was made: an
\* add_token that has written nothing yet can make the forward write next and
\* can make the metadata write next.
C17_EitherWriteFirst ==
    \A c \in Clients :
        BeforeFirstWrite(c)
        => /\ ENABLED AddHSetUser(c)
           /\ ENABLED AddHSetToken(c)

\* C17 (amended): a crash of add_token(u, t) between its two writes leaves
\* one partial state only: the forward mapping u -> t written and the metadata
\* write of t never made.  The metadata write is never made before the
\* forward write.
C17_ForwardWriteFirst ==
    \A c \in Clients :
        /\ BeforeFirstWrite(c) => cli[c].pc = "hset_user"
        /\ (cli[c].op = "add" /\ Issued(c, "hset_token"))
             => cli[c].calls = <<"hset_user", "hset_token">>
        /\ CrashedBetweenWrites(c)
             => /\ Writes(c) = <<"hset_user">>
                /\ ~cli[c].interfered
                     => UserToken(cli[c].user_id) = cli[c].token

\* add_token(42, t) crashed after its forward write: 42 maps to t and t has
\* no metadata entry.
C17_Witness ==
    \E c \in Clients :
        /\ CrashedBetweenWrites(c)
        /\ UserToken(cli[c].user_id) = cli[c].token
        /\ store[TokenKey(cli[c].token)] = EmptyHash

\* C18 (as claimed): the metadata entry of a token that add_token added has
\* the fields is_valid and last_validated.
C18_MetadataShape ==
    \A c \in Clients :
        (Reachable(c) /\ cli[c].op = "add")
        => {"is_valid", "last_validated"}
              \subseteq DOMAIN store[TokenKey(cli[c].token)]

(***************************************************************************)
(* NotificationEvent normalization                                         *)
(***************************************************************************)
\* The normalizer has produced an event from its input.
Normalized == norm.pc \in {"normalized", "renormalized"}

\* Every character of s is a decimal digit.
AllDigits(s) == s # <<>> /\ \A i \in 1..Len(s) : s[i] \in Digits

\* Ten to the n.
RECURSIVE Pow10(_)
Pow10(n) == IF n = 0 THEN 1 ELSE 10 * Pow10(n - 1)

\* The number a string of digits writes, digit by position.
RECURSIVE PositionalSum(_, _)
PositionalSum(s, i) ==
    IF i > Len(s) THEN 0
    ELSE DigitValue(s[i]) * Pow10(Len(s) - i) + PositionalSum(s, i + 1)

\* C11: normalization of user_id.  A string that parses as an integer yields
\* that integer ("123" yields 123, and every string of digits yields the
\* number it writes); a string that does not parse ("abc", the empty string,
\* any string with a letter in it) is kept unchanged and the normalization
\* does not fail; an integer (77) is kept unchanged.  A normalization is
\* rejected only when user_id is missing or is neither integer nor string.
C11_UserIdCoercion ==
    /\ Normalized =>
        LET in == norm.raw["user_id"]
            out == norm.event.user_id IN
        /\ in = StrV(<<"1", "2", "3">>) => out = IntV(123)
        /\ in = StrV(<<"a", "b", "c">>) => out = StrV(<<"a", "b", "c">>)
        /\ in = IntV(77) => out = IntV(77)
        /\ in.type = "int" => out = in
        /\ (in.type = "str" /\ AllDigits(in.str))
              => out = IntV(PositionalSum(in.str, 1))
        /\ (in.type = "str" /\ ParsesAsInt(in.str)) => out.type = "int"
        /\ (in.type = "str" /\ \E i \in 1..Len(in.str) : in.str[i] \in {"a", "b", "c"})
              => out = in
        /\ (in.type = "str" /\ ~ParsesAsInt(in.str)) => out = in
    /\ norm.pc = "rejected" =>
        \/ "user_id" \notin DOMAIN norm.raw
        \/ norm.raw["user_id"].type \notin {"int", "str"}

\* The string "123" has been normalized to the integer 123.
C11_Witness ==
    /\ norm.pc = "normalized"
    /\ norm.raw["user_id"] = StrV(<<"1", "2", "3">>)
    /\ norm.event.user_id = IntV(123)

\* C12: normalization is idempotent on canonical events.  Normalizing an
\* event that normalization produced yields the same event_id, user_id,
\* template_id, payload and created_at, however much later it is done.  A
\* default event_id or created_at is generated exactly when the field is
\* absent from the input; a field that is present, even as None, is kept.
C12_Idempotent ==
    /\ norm.pc = "renormalized" =>
        \A k \in EventFields : norm.again[k] = norm.event[k]
    /\ Normalized =>
        /\ IF "event_id" \in DOMAIN norm.raw
           THEN norm.event.event_id = norm.raw["event_id"]
           ELSE /\ norm.event.event_id.type = "uuid"
                /\ norm.event.event_id.int >= 1
        /\ IF "created_at" \in DOMAIN norm.raw
           THEN norm.event.created_at = norm.raw["created_at"]
           ELSE norm.event.created_at = TimeV(norm.normalizedAt)

\* An event whose event_id and created_at were both generated, and whose
\* user_id stayed a string, has been normalized again at a later time.
C12_Witness ==
    /\ norm.pc = "renormalized"
    /\ "event_id" \notin DOMAIN norm.raw
    /\ "created_at" \notin DOMAIN norm.raw
    /\ norm.clock > norm.normalizedAt
    /\ norm.event.user_id.type = "str"
    /\ norm.again = norm.event

\* C20: every message body publish_test_event builds conforms to the wire
\* format: it has the key user_id and at least one of the keys template_id
\* and payload, and the event normalized from it has a template_id or a
\* payload that is not None.
C20_BuiltEventActionable ==
    norm.origin = "publisher" =>
        /\ norm.pc # "rejected"
        /\ norm.pc # "start" =>
            /\ "user_id" \in DOMAIN norm.raw
            /\ {"template_id", "payload"} \cap DOMAIN norm.raw # {}
        /\ Normalized =>
            \/ norm.event.template_id # NoneV
            \/ norm.event.payload # NoneV

====
